---- MODULE Spec2Model ----
(***************************************************************************)
(* The in-memory bank ledger of src/src/main.rs: struct Account, struct    *)
(* Bank (a HashMap<u32, Account> plus the next_id counter) and the methods *)
(* of impl Bank.  Every method is one action; a call's arguments and what  *)
(* it returned are recorded in the variable "last", and history variables  *)
(* record what the calls returned.  The course catalog of                  *)
(* src/Assignment_1/src/main.rs (CourseType::get_overview) is modelled by  *)
(* the variables course and overview and the specification SpecCourse.     *)
(***************************************************************************)
EXTENDS Integers, Sequences, FiniteSets, TLC

\* ------------------------------------------------------------------ bounds
\* Explicit ids a caller passes (to add_account, and as account_id) are 0..MaxId.
MaxId == 2
\* add_account auto-assigns only while next_id < MaxNextId.  next_id is a u32
\* and MaxNextId is far below 2^32 - 1, so within this bound "next_id += 1"
\* neither wraps (release build) nor panics (debug build).
MaxNextId == 3
\* add_account is called only while fewer than MaxAdds calls have returned Ok.
MaxAdds == 3

\* ------------------------------------------------------------- input sets
Ids == 0..MaxId
Names == {"Alice", "Bob"}
\* f64 balances, negative ones included (update_balance validates nothing).
Balances == {-100, 1500}

\* struct Account { id, name, balance }
Account(id, name, balance) == [id |-> id, name |-> name, balance |-> balance]

\* The two accounts main constructs (Account::new(0, "Alice", 1000.0) and
\* Account::new(0, "Bob", 2000.0)).
MainAccounts == {Account(0, "Alice", 1000), Account(0, "Bob", 2000)}

AccountInputs ==
    {Account(i, n, b) : i \in Ids, n \in Names, b \in Balances} \cup MainAccounts

VARIABLES
    accounts,   \* Bank.accounts: a function from the stored keys to Accounts
    next_id,    \* Bank.next_id
    last,       \* the last call: its name, its arguments and what it returned
    autoLog,    \* history: one entry per add_account call made with id 0
    nAddOk,     \* history: number of add_account calls that returned Ok
    nRemoveOk,  \* history: number of remove_account calls that returned Ok
    scenario,   \* history: how far the calls so far have followed main's
                \* scenario (-1 once they have left it)
    course,     \* Assignment_1: the CourseType value at hand
    overview    \* Assignment_1: what get_overview returned for it, if called

bankVars == <<accounts, next_id, last, autoLog, nAddOk, nRemoveOk, scenario>>
courseVars == <<course, overview>>
vars == <<bankVars, courseVars>>

\* ------------------------------------------------------- HashMap<u32, _>
EmptyMap == <<>>

\* HashMap::contains_key
contains_key(map, k) == k \in DOMAIN map

\* HashMap::insert
insert(map, k, v) == [x \in (DOMAIN map) \cup {k} |-> IF x = k THEN v ELSE map[x]]

\* HashMap::remove (the map it leaves): a mutant that reads the entry and
\* leaves it stored
remove_KeepsEntry(map, k) == map

\* HashMap::remove (the map it leaves): a mutant that empties the map
remove_Clears(map, k) == IF k \in DOMAIN map THEN <<>> ELSE map

\* HashMap::remove (the map it leaves)
remove(map, k) == [x \in (DOMAIN map) \ {k} |-> map[x]]

\* Option<T>: None is the empty sequence, Some(v) the sequence <<v>>
None == <<>>
Some(v) == <<v>>

\* HashMap::get
get(map, k) == IF k \in DOMAIN map THEN Some(map[k]) ELSE None

\* ------------------------------------------------------- what a call returns
NoAccount == Account(0, "", 0)

Call(op, id, acct, bal, res, retId, retAcct, retList) ==
    [op |-> op, id |-> id, acct |-> acct, bal |-> bal,
     res |-> res, retId |-> retId, retAcct |-> retAcct, retList |-> retList]

NoCall == Call("new", 0, NoAccount, 0, "Ok", 0, NoAccount, <<>>)

\* ------------------------------------------- Assignment_1: the courses
\* The String values of the fields: the empty one and those main uses.
Texts == {"", "Rust Programming Workshop", "Alice Smith", "3"}

\* CourseType::Workshop(Workshop { title, instructor, duration })
Workshop(title, instructor, duration) ==
    [kind |-> "Workshop", title |-> title, instructor |-> instructor,
     duration |-> duration]

\* CourseType::Seminar(Seminar { title, speaker, location })
Seminar(title, speaker, location) ==
    [kind |-> "Seminar", title |-> title, speaker |-> speaker,
     location |-> location]

Courses ==
    {Workshop(t, i, d) : t \in Texts, i \in Texts, d \in Texts}
        \cup {Seminar(t, sp, l) : t \in Texts, sp \in Texts, l \in Texts}

\* Result<String, &'static str>
Ok(v) == [ok |-> TRUE, val |-> v]
Err(e) == [ok |-> FALSE, val |-> e]

\* String::is_empty
is_empty(str) == Len(str) = 0

\* a mutant of Incomplete: all three fields must be empty
Incomplete_AllEmpty(a, b, c) == is_empty(a) /\ is_empty(b) /\ is_empty(c)

\* "a.is_empty() || b.is_empty() || c.is_empty()"
Incomplete(a, b, c) == is_empty(a) \/ is_empty(b) \/ is_empty(c)

\* impl Course for CourseType: get_overview
get_overview(self) ==
    IF self.kind = "Workshop"
    THEN IF Incomplete(self.title, self.instructor, self.duration)
         THEN Err("Workshop details are incomplete")
         ELSE Ok("Workshop: " \o self.title \o ", Instructor: " \o self.instructor
                    \o ", Duration: " \o self.duration \o " hours")
    ELSE IF Incomplete(self.title, self.speaker, self.location)
         THEN Err("Seminar details are incomplete")
         ELSE Ok("Seminar: " \o self.title \o ", Speaker: " \o self.speaker
                    \o ", Location: " \o self.location)

\* The first course main builds.
MainWorkshop == Workshop("Rust Programming Workshop", "Alice Smith", "3")

\* print_course_overview(course): the call of course.get_overview()
print_course_overview ==
    /\ overview = None
    /\ overview' = Some(get_overview(course))
    /\ UNCHANGED <<course, bankVars>>

\* The caller builds the next course.
new_course(c) ==
    /\ overview # None
    /\ course' = c
    /\ overview' = None
    /\ UNCHANGED bankVars

\* ------------------------------------------------------------------ main
\* The k-th call of the scenario: main's calls (two auto-assigning inserts,
\* update_balance(1, 1500.0), remove_account(2), list_accounts) followed by
\* get_account(2) and an insert with the explicit id 1.
ScenarioCall(k, call) ==
    CASE k = 1 -> call.op = "add_account" /\ call.acct = Account(0, "Alice", 1000)
      [] k = 2 -> call.op = "add_account" /\ call.acct = Account(0, "Bob", 2000)
      [] k = 3 -> call.op = "update_balance" /\ call.id = 1 /\ call.bal = 1500
      [] k = 4 -> call.op = "remove_account" /\ call.id = 2
      [] k = 5 -> call.op = "list_accounts"
      [] k = 6 -> call.op = "get_account" /\ call.id = 2
      [] k = 7 -> call.op = "add_account" /\ call.acct.id = 1
      [] OTHER -> FALSE

\* The calls that take &self: main makes some between the scenario's calls
\* (list_accounts and get_account(1) after the two inserts).
ReadOnly(call) == call.op \in {"get_account", "list_accounts"}

\* The position in the scenario after one more call.
ScenarioAfter(n, call) ==
    IF n < 0 THEN -1
    ELSE IF ScenarioCall(n + 1, call) THEN n + 1
    ELSE IF ReadOnly(call) THEN n
    ELSE -1

\* ------------------------------------------------------------- Bank::new
BankInit ==
    /\ accounts = EmptyMap
    /\ next_id = 1
    /\ last = NoCall
    /\ autoLog = <<>>
    /\ nAddOk = 0
    /\ nRemoveOk = 0
    /\ scenario = 0

\* The Bank after Bank::new; the course catalog is a separate program and
\* stays as it is.
Init ==
    /\ BankInit
    /\ course = MainWorkshop
    /\ overview = None

\* ------------------------------------------------------ Bank::add_account
\* a mutant of AssignId: the id is taken after the increment
AssignId_AfterIncrement(account, nid) ==
    IF account.id = 0 THEN [account EXCEPT !.id = nid + 1] ELSE account

\* a mutant of AssignId: the account stays unassigned
AssignId_Unassigned(account, nid) == account

\* the account after "if account.id == 0 { account.id = self.next_id; ... }"
AssignId(account, nid) ==
    IF account.id = 0 THEN [account EXCEPT !.id = nid] ELSE account

\* a mutant of NextIdAfter that forgets the increment
NextIdAfter_NoIncrement(account, nid) == nid

\* a mutant of NextIdAfter: the counter moves by two
NextIdAfter_ByTwo(account, nid) ==
    IF account.id = 0 THEN nid + 2 ELSE nid

\* a mutant of NextIdAfter: an explicit id at or above the counter moves the
\* counter past it
NextIdAfter_TracksExplicit(account, nid) ==
    IF account.id = 0 THEN nid + 1
    ELSE IF account.id >= nid THEN account.id + 1 ELSE nid

\* next_id after "if account.id == 0 { ...; self.next_id += 1; }"
NextIdAfter(account, nid) ==
    IF account.id = 0 THEN nid + 1 ELSE nid

\* a mutant of IsDuplicate: the check is skipped
IsDuplicate_Never(map, acct) == FALSE

\* "if self.accounts.contains_key(&account.id)"
IsDuplicate(map, acct) == contains_key(map, acct.id)

add_account(account) ==
    LET acct == AssignId(account, next_id)
        nid  == NextIdAfter(account, next_id)
        dup  == IsDuplicate(accounts, acct)
    IN  /\ nAddOk < MaxAdds
        /\ account.id = 0 => next_id < MaxNextId
        /\ next_id' = nid
        /\ accounts' = IF dup THEN accounts ELSE insert(accounts, acct.id, acct)
        /\ last' = Call("add_account", account.id, account, 0,
                        IF dup THEN "Err" ELSE "Ok", acct.id, NoAccount, <<>>)
        /\ autoLog' = IF account.id = 0
                      THEN Append(autoLog, [id |-> acct.id, ok |-> ~dup])
                      ELSE autoLog
        /\ nAddOk' = IF dup THEN nAddOk ELSE nAddOk + 1
        /\ scenario' = ScenarioAfter(scenario, last')
        /\ UNCHANGED courseVars
        /\ UNCHANGED nRemoveOk

\* --------------------------------------------------- Bank::remove_account
\* a mutant of remove_account: the id of a removed account is handed out again
remove_account_Recycles(account_id) ==
    LET found == contains_key(accounts, account_id)
    IN  /\ accounts' = IF found THEN remove(accounts, account_id) ELSE accounts
        /\ last' = Call("remove_account", account_id, NoAccount, 0,
                        IF found THEN "Ok" ELSE "Err", account_id,
                        IF found THEN accounts[account_id] ELSE NoAccount, <<>>)
        /\ nRemoveOk' = IF found THEN nRemoveOk + 1 ELSE nRemoveOk
        /\ next_id' = IF found /\ account_id < next_id THEN account_id ELSE next_id
        /\ scenario' = ScenarioAfter(scenario, last')
        /\ UNCHANGED courseVars
        /\ UNCHANGED <<autoLog, nAddOk>>

remove_account(account_id) ==
    LET found == contains_key(accounts, account_id)
    IN  /\ accounts' = IF found THEN remove(accounts, account_id) ELSE accounts
        /\ last' = Call("remove_account", account_id, NoAccount, 0,
                        IF found THEN "Ok" ELSE "Err", account_id,
                        IF found THEN accounts[account_id] ELSE NoAccount, <<>>)
        /\ nRemoveOk' = IF found THEN nRemoveOk + 1 ELSE nRemoveOk
        /\ scenario' = ScenarioAfter(scenario, last')
        /\ UNCHANGED courseVars
        /\ UNCHANGED <<next_id, autoLog, nAddOk>>

\* ------------------------------------------------------ Bank::get_account
\* HashMap::get: Some(&value) when the key is stored, None otherwise
get_account(account_id) ==
    LET r == get(accounts, account_id)
    IN  /\ last' = Call("get_account", account_id, NoAccount, 0,
                        IF r = None THEN "None" ELSE "Some", account_id,
                        IF r = None THEN NoAccount ELSE r[1], <<>>)
        /\ scenario' = ScenarioAfter(scenario, last')
        /\ UNCHANGED courseVars
        /\ UNCHANGED <<accounts, next_id, autoLog, nAddOk, nRemoveOk>>

\* -------------------------------------------------- Bank::get_account_mut
\* The map after the holder of the &mut Account that HashMap::get_mut returned
\* for key k has left the value "written" in it (the map is untouched when
\* the key is not stored: get_mut returned None).
get_mut_write(map, k, written) ==
    IF contains_key(map, k) THEN [map EXCEPT ![k] = written] ELSE map

\* The caller gets the mutable view and writes through it: all three fields
\* of Account are pub, so any of them may change ("written" is the value the
\* caller leaves in the stored account; leaving it as it was is one choice).
get_account_mut(account_id, written) ==
    LET found == contains_key(accounts, account_id)
    IN  /\ accounts' = get_mut_write(accounts, account_id, written)
        /\ last' = Call("get_account_mut", account_id, NoAccount, 0,
                        IF found THEN "Some" ELSE "None", account_id,
                        NoAccount, <<>>)
        /\ scenario' = ScenarioAfter(scenario, last')
        /\ UNCHANGED courseVars
        /\ UNCHANGED <<next_id, autoLog, nAddOk, nRemoveOk>>

\* ---------------------------------------------------- Bank::list_accounts
\* The orders in which HashMap::values may visit the keys: any order.
Orders(keys) ==
    {o \in [1..Cardinality(keys) -> keys] :
        \A i, j \in 1..Cardinality(keys) : o[i] = o[j] => i = j}

\* a mutant of values: the last value visited is left out
values_SkipsLast(map, o) == [i \in 1..(Len(o) - 1) |-> map[o[i]]]

\* self.accounts.values().collect(), with the keys visited in order o
values(map, o) == [i \in 1..Len(o) |-> map[o[i]]]

list_accounts ==
    \E o \in Orders(DOMAIN accounts) :
        /\ last' = Call("list_accounts", 0, NoAccount, 0, "Ok", 0, NoAccount,
                        values(accounts, o))
        /\ scenario' = ScenarioAfter(scenario, last')
        /\ UNCHANGED courseVars
        /\ UNCHANGED <<accounts, next_id, autoLog, nAddOk, nRemoveOk>>

\* --------------------------------------------------- Bank::update_balance
\* a mutant of SetBalance: the amount is added to the balance
SetBalance_Adds(account, new_balance) ==
    [account EXCEPT !.balance = account.balance + new_balance]

\* "account.balance = new_balance" on the account get_account_mut returned
SetBalance(account, new_balance) == [account EXCEPT !.balance = new_balance]

\* a mutant of UpdatedAccounts: an absent account is created
UpdatedAccounts_Upsert(map, account_id, new_balance) ==
    IF contains_key(map, account_id)
    THEN get_mut_write(map, account_id, SetBalance(map[account_id], new_balance))
    ELSE insert(map, account_id, Account(account_id, "", new_balance))

\* the map after "match self.get_account_mut(account_id) { Some(account) =>
\* { account.balance = new_balance; .. } None => .. }"
UpdatedAccounts(map, account_id, new_balance) ==
    IF contains_key(map, account_id)
    THEN get_mut_write(map, account_id, SetBalance(map[account_id], new_balance))
    ELSE map

update_balance(account_id, new_balance) ==
    LET found == contains_key(accounts, account_id)
    IN  /\ accounts' = UpdatedAccounts(accounts, account_id, new_balance)
        /\ last' = Call("update_balance", account_id, NoAccount, new_balance,
                        IF found THEN "Ok" ELSE "Err", account_id, NoAccount, <<>>)
        /\ scenario' = ScenarioAfter(scenario, last')
        /\ UNCHANGED courseVars
        /\ UNCHANGED <<next_id, autoLog, nAddOk, nRemoveOk>>

\* ----------------------------------------------------------- the program
\* The calls of the methods that take or return no mutable view.
NextCore ==
    \/ \E account \in AccountInputs : add_account(account)
    \/ \E account_id \in Ids : remove_account(account_id)
    \/ \E account_id \in Ids : get_account(account_id)
    \/ list_accounts
    \/ \E account_id \in Ids, new_balance \in Balances :
          update_balance(account_id, new_balance)

\* Every public method, the caller's writes through get_account_mut included.
Next ==
    \/ NextCore
    \/ \E account_id \in Ids, written \in AccountInputs :
          get_account_mut(account_id, written)

Spec == Init /\ [][Next]_vars

SpecCore == Init /\ [][NextCore]_vars

\* ------------------------------------------- Assignment_1: the program
\* The calls of the course catalog; the Bank is a separate program and stays
\* as Bank::new left it.
\* A course is built from any field values; get_overview has not been called.
InitCourse ==
    /\ BankInit
    /\ course \in Courses
    /\ overview = None

NextCourse ==
    \/ print_course_overview
    \/ \E c \in Courses : new_course(c)

SpecCourse == InitCourse /\ [][NextCourse]_vars

\* ================================================================ claims

\* The entries of autoLog whose add_account call returned Ok.
IsAuto(call) == call.op = "add_account" /\ call.acct.id = 0

\* C1: the ids returned by the successful add_account calls made with id 0
\* are strictly increasing in call order (so none is returned twice), also
\* when auto-assigned accounts were removed in between.
C1_AutoIdsStrictlyIncreasing ==
    \A i, j \in DOMAIN autoLog :
        (i < j /\ autoLog[i].ok /\ autoLog[j].ok) => autoLog[i].id < autoLog[j].id

\* C1 witness: a second auto-assigning call has returned Ok after the account
\* of the first one was removed.
C1_Witness ==
    /\ IsAuto(last) /\ last.res = "Ok"
    /\ Len(autoLog) >= 2 /\ autoLog[1].ok /\ autoLog[Len(autoLog)].ok
    /\ ~contains_key(accounts, autoLog[1].id)
    /\ nRemoveOk >= 1

\* C2 (as claimed): no two stored accounts have the same non-zero id field,
\* in every state the public methods reach, the caller's writes through
\* get_account_mut included.
C2_UniqueNonZeroIds ==
    \A k1, k2 \in DOMAIN accounts :
        (k1 # k2 /\ accounts[k1].id # 0) => accounts[k1].id # accounts[k2].id

\* C3 (as claimed): an add_account call that returns the duplicate-id error
\* leaves accounts and next_id as they were.
C3_FailedAddChangesNothing ==
    [][(last'.op = "add_account" /\ last'.res = "Err")
         => (accounts' = accounts /\ next_id' = next_id)]_vars

\* C4: add_account with an explicit non-zero id that is a stored key returns
\* the duplicate-id error; afterwards get_account for that id returns the
\* record stored before the call and the stored accounts are the same.
C4_ExplicitDuplicateRejected ==
    [][(last'.op = "add_account" /\ last'.acct.id # 0
          /\ contains_key(accounts, last'.acct.id))
         => (/\ last'.res = "Err"
             /\ last'.retId = last'.acct.id
             /\ get(accounts', last'.acct.id) = Some(accounts[last'.acct.id])
             /\ accounts' = accounts)]_vars

\* C4 witness: a rejected explicit insert whose name and balance both differ
\* from those of the stored record.
C4_Witness ==
    /\ last.op = "add_account" /\ last.acct.id # 0 /\ last.res = "Err"
    /\ contains_key(accounts, last.acct.id)
    /\ accounts[last.acct.id].name # last.acct.name
    /\ accounts[last.acct.id].balance # last.acct.balance

\* C5: next_id starts at 1, never decreases, and is always greater than every
\* id ever auto-assigned, the ids of removed accounts included.
C5_NextIdAboveAutoAssigned ==
    /\ next_id = 1
    /\ [](\A i \in DOMAIN autoLog : autoLog[i].id < next_id)
    /\ [][next_id' >= next_id]_vars

\* C5 witness: an auto-assigned account has been removed and next_id has moved on.
C5_Witness ==
    /\ Len(autoLog) >= 1 /\ autoLog[1].ok
    /\ ~contains_key(accounts, autoLog[1].id)
    /\ last.op = "remove_account" /\ last.res = "Ok" /\ last.id = autoLog[1].id
    /\ next_id > 1

\* C6: the number of accounts list_accounts returns is the number of
\* add_account calls that returned Ok minus the number of remove_account
\* calls that returned Ok.
C6_ListCountIsAddsMinusRemoves ==
    last.op = "list_accounts" => Len(last.retList) = nAddOk - nRemoveOk

\* C6 witness: a non-empty listing after an account was removed and a call of
\* add_account was rejected.
C6_Witness ==
    /\ last.op = "list_accounts" /\ Len(last.retList) >= 1
    /\ nRemoveOk >= 1
    /\ \E i \in DOMAIN autoLog : ~autoLog[i].ok

\* C7: a successful remove_account(id) returns the record that was stored
\* under id, deletes that entry only (get_account(id) is then absent) and
\* leaves every other stored account as it was; an absent id becomes present
\* again only by an add_account call that returns Ok with that id.
C7_RemoveDeletesOnlyThatEntry ==
    [][/\ (last'.op = "remove_account" /\ last'.res = "Ok")
            => (/\ contains_key(accounts, last'.id)
                /\ last'.retAcct = accounts[last'.id]
                /\ get(accounts', last'.id) = None
                /\ DOMAIN accounts' = (DOMAIN accounts) \ {last'.id}
                /\ \A k \in DOMAIN accounts' : accounts'[k] = accounts[k])
       /\ \A k \in (DOMAIN accounts') \ (DOMAIN accounts) :
             last'.op = "add_account" /\ last'.res = "Ok" /\ last'.retId = k]_vars

\* C7 witness: an account was removed while another one stayed stored.
C7_Witness ==
    /\ last.op = "remove_account" /\ last.res = "Ok"
    /\ last.retAcct.id = last.id
    /\ accounts # EmptyMap
    /\ get(accounts, last.id) = None

\* C8: remove_account of an id that is not stored returns the not-found error
\* and leaves accounts as it was; remove_account never changes next_id, and
\* an id auto-assigned before is not auto-assigned again.
C8_RemoveKeepsNextId ==
    [][/\ last'.op = "remove_account"
            => (/\ next_id' = next_id
                /\ ~contains_key(accounts, last'.id)
                      => (last'.res = "Err" /\ accounts' = accounts))
       /\ (IsAuto(last') /\ last'.res = "Ok")
            => \A i \in DOMAIN autoLog : autoLog[i].id # last'.retId]_vars

\* C8 witness: remove_account failed on the id of an auto-assigned account
\* that had been removed, and next_id is still above that id.
C8_Witness ==
    /\ last.op = "remove_account" /\ last.res = "Err"
    /\ \E i \in DOMAIN autoLog : autoLog[i].ok /\ autoLog[i].id = last.id
    /\ nRemoveOk >= 1
    /\ next_id > last.id
    /\ accounts # EmptyMap

\* C9: update_balance of an id that is not stored returns the not-found error
\* and changes neither accounts nor next_id.
C9_UpdateAbsentChangesNothing ==
    [][(last'.op = "update_balance" /\ ~contains_key(accounts, last'.id))
         => (last'.res = "Err" /\ accounts' = accounts /\ next_id' = next_id)]_vars

\* C9 witness: update_balance failed while other accounts were stored.
C9_Witness ==
    /\ last.op = "update_balance" /\ last.res = "Err"
    /\ last.id # 0
    /\ accounts # EmptyMap

\* C10: update_balance of a stored id returns Ok for every value, negative
\* ones included, sets that account's balance to the value and changes
\* nothing else (its id and name, the other accounts, the stored keys,
\* next_id); a second call with the same value changes nothing.
C10_UpdatePresentSetsBalanceOnly ==
    [][(last'.op = "update_balance" /\ contains_key(accounts, last'.id))
         => (/\ last'.res = "Ok"
             /\ DOMAIN accounts' = DOMAIN accounts
             /\ accounts'[last'.id].balance = last'.bal
             /\ accounts'[last'.id].id = accounts[last'.id].id
             /\ accounts'[last'.id].name = accounts[last'.id].name
             /\ \A k \in (DOMAIN accounts) \ {last'.id} : accounts'[k] = accounts[k]
             /\ next_id' = next_id
             /\ UpdatedAccounts(accounts', last'.id, last'.bal) = accounts')]_vars

\* C10 witness: a stored balance was overwritten by a different, negative
\* value while another account was stored.
C10_Witness ==
    /\ last.op = "update_balance" /\ last.res = "Ok" /\ last.bal < 0
    /\ Cardinality(DOMAIN accounts) >= 2
    /\ accounts[last.id].balance = last.bal
    /\ \E k \in DOMAIN accounts : accounts[k].balance # last.bal

\* C11: add_account with an explicit non-zero id never changes next_id; when
\* the id is not stored the call returns Ok with exactly that id and stores
\* the account under it with the caller's name and balance, the other
\* accounts staying as they were.
C11_ExplicitAddKeepsNextId ==
    [][(last'.op = "add_account" /\ last'.acct.id # 0)
         => (/\ next_id' = next_id
             /\ ~contains_key(accounts, last'.acct.id)
                  => (/\ last'.res = "Ok"
                      /\ last'.retId = last'.acct.id
                      /\ DOMAIN accounts' = (DOMAIN accounts) \cup {last'.acct.id}
                      /\ accounts'[last'.acct.id] = last'.acct
                      /\ \A k \in DOMAIN accounts : accounts'[k] = accounts[k]))]_vars

\* C11 witness: an explicit insert of an id at or above the counter succeeded
\* after auto-assignment had run, and the counter is still at or below that id.
C11_Witness ==
    /\ last.op = "add_account" /\ last.acct.id # 0 /\ last.res = "Ok"
    /\ Len(autoLog) >= 1
    /\ last.acct.id >= next_id
    /\ accounts[last.acct.id] = last.acct

\* C12: an add_account call with id 0 returns the duplicate-id error exactly
\* when the key next_id is stored, which happens: that key was never
\* auto-assigned, so it was stored by an explicit insert of an id at or
\* above the counter, and the failed call still moves the counter past it.
C12_AutoAddCollidesWithExplicitId ==
    [][IsAuto(last')
         => (/\ last'.retId = next_id
             /\ (last'.res = "Err") <=> contains_key(accounts, next_id)
             /\ last'.res = "Err"
                  => (/\ \A i \in DOMAIN autoLog : autoLog[i].id # next_id
                      /\ accounts[next_id].id = next_id
                      /\ accounts' = accounts
                      /\ next_id' = next_id + 1))]_vars

\* C12 witness: after an explicit insert above the counter, auto-assignment
\* succeeded until the counter reached that id, and the next call with id 0
\* returned the duplicate-id error.
C12_Witness ==
    /\ IsAuto(last) /\ last.res = "Err"
    /\ Len(autoLog) >= 2
    /\ \A i \in 1..(Len(autoLog) - 1) : autoLog[i].ok
    /\ ~autoLog[Len(autoLog)].ok
    /\ contains_key(accounts, last.retId)
    /\ last.retId > 1

\* C13: the example scenario on a fresh Bank.  add_account(0, Alice, 1000)
\* returns Ok(1); add_account(0, Bob, 2000) returns Ok(2); update_balance(1,
\* 1500) returns Ok; remove_account(2) returns Ok with {2, Bob, 2000}; then
\* list_accounts returns the one record {1, Alice, 1500}, get_account(2) is
\* absent, and add_account with the explicit id 1 returns the duplicate-id
\* error.
C13_ExampleScenario ==
    LET alice(b) == Account(1, "Alice", b)
        bob      == Account(2, "Bob", 2000)
    IN  /\ scenario = 1 =>
              /\ accounts = (1 :> alice(1000))
              /\ last.op = "add_account" => (last.res = "Ok" /\ last.retId = 1)
        /\ scenario = 2 =>
              /\ accounts = (1 :> alice(1000) @@ 2 :> bob)
              /\ last.op = "add_account" => (last.res = "Ok" /\ last.retId = 2)
        /\ scenario = 3 =>
              /\ accounts = (1 :> alice(1500) @@ 2 :> bob)
              /\ last.op = "update_balance" => last.res = "Ok"
        /\ scenario = 4 =>
              /\ accounts = (1 :> alice(1500))
              /\ last.op = "remove_account" => (last.res = "Ok" /\ last.retAcct = bob)
        /\ scenario = 5 =>
              /\ accounts = (1 :> alice(1500))
              /\ last.op = "list_accounts" => last.retList = <<alice(1500)>>
        /\ scenario = 6 =>
              /\ accounts = (1 :> alice(1500))
              /\ (last.op = "get_account" /\ last.id = 2) => last.res = "None"
        /\ scenario = 7 =>
              /\ accounts = (1 :> alice(1500))
              /\ last.op = "add_account" => (last.res = "Err" /\ last.retId = 1)

\* C13 witness: the scenario has run to its end.
C13_Witness ==
    /\ scenario = 7
    /\ last.op = "add_account" /\ last.acct.id = 1
    /\ nAddOk = 2 /\ nRemoveOk = 1

\* C14: an add_account call with id 0 that returns Ok returns the value
\* next_id had before the call, stores under that key the account with its id
\* set to that value and the caller's name and balance, and increases next_id
\* by exactly 1; the first such call on a Bank returns 1.
C14_AutoAddAssignsNextId ==
    [][(IsAuto(last') /\ last'.res = "Ok")
         => (/\ last'.retId = next_id
             /\ ~contains_key(accounts, next_id)
             /\ DOMAIN accounts' = (DOMAIN accounts) \cup {next_id}
             /\ accounts'[next_id] =
                    Account(next_id, last'.acct.name, last'.acct.balance)
             /\ \A k \in DOMAIN accounts : accounts'[k] = accounts[k]
             /\ next_id' = next_id + 1
             /\ autoLog = <<>> => last'.retId = 1)]_vars

\* C14 witness: a second auto-assigning call returned Ok, with 2, after the
\* first one had been given 1.
C14_Witness ==
    /\ IsAuto(last) /\ last.res = "Ok" /\ last.retId = 2
    /\ next_id = 3
    /\ accounts[2].name = last.acct.name
    /\ \E i \in DOMAIN autoLog : autoLog[i].id = 1

\* How often the record r occurs in the list, and among the stored values.
TimesListed(list, r) == Cardinality({i \in DOMAIN list : list[i] = r})
TimesStored(map, r) == Cardinality({k \in DOMAIN map : map[k] = r})

\* C15: get_account and list_accounts change neither accounts nor next_id;
\* get_account(id) returns a record, the stored one, exactly when id is a
\* stored key; list_accounts returns the stored records, each once.
C15_ReadsChangeNothing ==
    [][/\ ReadOnly(last') => (accounts' = accounts /\ next_id' = next_id)
       /\ last'.op = "get_account"
            => (/\ (last'.res = "Some") <=> contains_key(accounts, last'.id)
                /\ last'.res = "Some" => last'.retAcct = accounts[last'.id]
                /\ last'.res \in {"Some", "None"})
       /\ last'.op = "list_accounts"
            => (/\ Len(last'.retList) = Cardinality(DOMAIN accounts)
                /\ \A k \in DOMAIN accounts :
                      TimesListed(last'.retList, accounts[k])
                          = TimesStored(accounts, accounts[k])
                /\ \A i \in DOMAIN last'.retList :
                      TimesStored(accounts, last'.retList[i]) >= 1)]_vars

\* C15 witness: list_accounts returned the two stored records, which differ.
C15_Witness ==
    /\ last.op = "list_accounts" /\ Len(last.retList) = 2
    /\ last.retList[1] # last.retList[2]
    /\ \A i \in 1..2 : \E k \in DOMAIN accounts : accounts[k] = last.retList[i]
    /\ nAddOk - nRemoveOk = 2

\* C16: with add_account, remove_account, update_balance and the reading
\* methods only (no write through get_account_mut), every stored account's id
\* field is the key it is stored under and is not 0, so a record that
\* get_account(k) returns has id k.
C16_IdFieldIsKey ==
    /\ \A k \in DOMAIN accounts : accounts[k].id = k /\ k # 0
    /\ (last.op = "get_account" /\ last.res = "Some") => last.retAcct.id = last.id

\* C16 witness: get_account returned an auto-assigned account while an account
\* inserted with an explicit id was stored too, after a removal.
C16_Witness ==
    /\ last.op = "get_account" /\ last.res = "Some"
    /\ \E i \in DOMAIN autoLog : autoLog[i].ok /\ autoLog[i].id = last.id
    /\ \E k \in DOMAIN accounts : \A i \in DOMAIN autoLog : autoLog[i].id # k
    /\ nRemoveOk >= 1

\* C17: get_overview returns an error exactly when one of the variant's three
\* text fields is empty, the message naming the variant; otherwise it returns
\* Ok with the variant's formatted overview.
C17_OverviewErrIffFieldEmpty ==
    overview # None =>
        LET r == overview[1]
            c == course
        IN  /\ c.kind = "Workshop" =>
                  /\ ~r.ok <=> (c.title = "" \/ c.instructor = "" \/ c.duration = "")
                  /\ ~r.ok => r.val = "Workshop details are incomplete"
                  /\ r.ok => r.val = "Workshop: " \o c.title \o ", Instructor: "
                                        \o c.instructor \o ", Duration: "
                                        \o c.duration \o " hours"
            /\ c.kind = "Seminar" =>
                  /\ ~r.ok <=> (c.title = "" \/ c.speaker = "" \/ c.location = "")
                  /\ ~r.ok => r.val = "Seminar details are incomplete"
                  /\ r.ok => r.val = "Seminar: " \o c.title \o ", Speaker: "
                                        \o c.speaker \o ", Location: " \o c.location

\* C17 witness: get_overview returned the error for a Seminar of which only
\* the location is empty.
C17_Witness ==
    /\ overview # None /\ ~overview[1].ok
    /\ course.kind = "Seminar"
    /\ course.title # "" /\ course.speaker # "" /\ course.location = ""

====
